---- MODULE Spec2Model ----
(***************************************************************************)
(* Model of mathml_to_latex.py: the MathML-to-LaTeX element transducer,    *)
(* the two string post-process passes and the document loop that calls     *)
(* them.                                                                   *)
(*                                                                         *)
(* A Python str is a sequence of characters.  A character is a one-element *)
(* TLA+ string; a character outside ASCII is written by its code point     *)
(* ("U+02C6").  A MathML element is a record                               *)
(*   [tag, text, attrib, kids]                                             *)
(* with tag the element's tag, text its .text (None is the empty           *)
(* sequence: the code only reads `elem.text or ''`), attrib a set of       *)
(* <<name, value>> pairs and kids the sequence of child elements.  The     *)
(* trees are parsed without an XML namespace, so that get_tag, find and    *)
(* findall see the same tag names.                                         *)
(***************************************************************************)
EXTENDS Integers, Sequences, FiniteSets, TLC

VARIABLES
    maths,      \* tree.root.css('math'): the math elements, document order
    pos,        \* index in maths of the element the loop is at
    pc,         \* position in clean_html_and_convert_mathml / in the harness
    latex,      \* the local variable latex
    blocks,     \* the blocks spliced into the document so far
    output,     \* the returned text, as its sequence of lines
    expr,       \* repair harness: the string handed to beautify_latex
    passes      \* repair harness: the results of the successive passes

vars == <<maths, pos, pc, latex, blocks, output, expr, passes>>

(***************************************************************************)
(* Bounds of the model.                                                    *)
(***************************************************************************)
MaxMath == 2        \* math elements in a document of several elements
MaxRows == 2        \* mtr rows of a generated column table
MaxChunks == 4      \* chunks of a generated input of the repair pass

(***************************************************************************)
(* Characters and strings.                                                 *)
(***************************************************************************)
LowerSeq ==
    <<"a","b","c","d","e","f","g","h","i","j","k","l","m",
      "n","o","p","q","r","s","t","u","v","w","x","y","z">>

UpperSeq ==
    <<"A","B","C","D","E","F","G","H","I","J","K","L","M",
      "N","O","P","Q","R","S","T","U","V","W","X","Y","Z">>

AsciiDigits == <<"0","1","2","3","4","5","6","7","8","9">>

PersianDigits ==
    <<"U+06F0","U+06F1","U+06F2","U+06F3","U+06F4",
      "U+06F5","U+06F6","U+06F7","U+06F8","U+06F9">>

ArabicDigits ==
    <<"U+0660","U+0661","U+0662","U+0663","U+0664",
      "U+0665","U+0666","U+0667","U+0668","U+0669">>

Range(s) == {s[k] : k \in 1..Len(s)}

\* the least element of a non-empty set of integers
Min(S) == CHOOSE x \in S : \A y \in S : x <= y

\* [a-zA-Z]
AlphaChars == Range(LowerSeq) \cup Range(UpperSeq)
IsAlpha(c) == c \in AlphaChars

\* \s, and the whitespace of str.strip() and str.split()
IsSpace(c) == c \in {" ", "\t", "\n"}

\* \w: letters, digits and the underscore; U+02C6 is a modifier letter
WordChars ==
    AlphaChars \cup Range(AsciiDigits) \cup Range(PersianDigits)
        \cup Range(ArabicDigits) \cup {"_", "U+02C6"}
IsWord(c) == c \in WordChars

\* s[i:].startswith(p), i counted from 1
StartsWithAt(s, p, i) ==
    /\ i + Len(p) - 1 <= Len(s)
    /\ \A k \in 1..Len(p) : s[i + k - 1] = p[k]

\* s.startswith(p)
startswith(s, p) == StartsWithAt(s, p, 1)

\* p in s
contains(s, p) == \E i \in 1..(Len(s) - Len(p) + 1) : StartsWithAt(s, p, i)

\* s.strip()
strip(s) ==
    LET keep == {k \in 1..Len(s) : ~IsSpace(s[k])}
    IN  IF keep = {} THEN <<>>
        ELSE LET lo == CHOOSE k \in keep : \A j \in keep : k <= j
                 hi == CHOOSE k \in keep : \A j \in keep : k >= j
             IN  SubSeq(s, lo, hi)

\* s.rstrip(chars)
rstrip(s, chars) ==
    LET keep == {k \in 1..Len(s) : s[k] \notin chars}
    IN  IF keep = {} THEN <<>>
        ELSE SubSeq(s, 1, CHOOSE k \in keep : \A j \in keep : k >= j)

\* s.lower(), one character
UpperChars == Range(UpperSeq)
LowerChar(c) ==
    IF c \in UpperChars
    THEN LowerSeq[CHOOSE k \in 1..Len(UpperSeq) : UpperSeq[k] = c]
    ELSE c

\* s.lower()
lower(s) == [k \in 1..Len(s) |-> LowerChar(s[k])]

\* s.replace(old, new) for a non-empty old: leftmost, non-overlapping;
\* the part of s from i on
RECURSIVE ReplaceFrom(_, _, _, _)
ReplaceFrom(s, old, new, i) ==
    LET hits == {k \in i..Len(s) : StartsWithAt(s, old, k)}
    IN  IF hits = {} THEN SubSeq(s, i, Len(s))
        ELSE SubSeq(s, i, Min(hits) - 1) \o new
                 \o ReplaceFrom(s, old, new, Min(hits) + Len(old))

replace(s, old, new) == ReplaceFrom(s, old, new, 1)

\* sep.join(parts)
RECURSIVE join(_, _)
join(sep, parts) ==
    IF Len(parts) = 0 THEN <<>>
    ELSE IF Len(parts) = 1 THEN parts[1]
         ELSE parts[1] \o sep \o join(sep, Tail(parts))

\* ''.join(parts)
concat(parts) == join(<<>>, parts)

(***************************************************************************)
(* convert_persian_digits                                                  *)
(***************************************************************************)
PersianChars == Range(PersianDigits)
ArabicChars == Range(ArabicDigits)
DigitChar(c) ==
    IF c \in PersianChars
    THEN AsciiDigits[CHOOSE k \in 1..10 : PersianDigits[k] = c]
    ELSE IF c \in ArabicChars
         THEN AsciiDigits[CHOOSE k \in 1..10 : ArabicDigits[k] = c]
         ELSE c

convert_persian_digits(s) == [k \in 1..Len(s) |-> DigitChar(s[k])]

(***************************************************************************)
(* normalize_identifiers                                                   *)
(***************************************************************************)
function_patterns ==
    << <<"c","o","s">>, <<"s","i","n">>, <<"t","a","n">>, <<"c","o","t">>,
       <<"s","e","c">>, <<"c","s","c">>, <<"l","o","g">>, <<"l","n">> >>

\* \b between s[i-1] and s[i]; the ends of the string count as non-word
WordBoundary(s, i) ==
    ((i > 1 /\ i - 1 <= Len(s)) /\ IsWord(s[i - 1]))
        # ((i >= 1 /\ i <= Len(s)) /\ IsWord(s[i]))

\* \b{fn}([a-zA-Z])\b matches at i
FnLetterAt(s, fn, i) ==
    /\ WordBoundary(s, i)
    /\ StartsWithAt(s, fn, i)
    /\ i + Len(fn) <= Len(s)
    /\ IsAlpha(s[i + Len(fn)])
    /\ WordBoundary(s, i + Len(fn) + 1)

\* re.sub(rf'\b{fn}([a-zA-Z])\b', rf'\\{fn} \1', text): leftmost matches,
\* non-overlapping; the part of the result from i on
RECURSIVE SubFnLetter(_, _, _)
SubFnLetter(s, fn, i) ==
    LET hits == {k \in i..Len(s) : FnLetterAt(s, fn, k)}
    IN  IF hits = {} THEN SubSeq(s, i, Len(s))
        ELSE LET j == Min(hits) + Len(fn)
             IN  SubSeq(s, i, Min(hits) - 1) \o <<"\\">> \o fn \o <<" ", s[j]>>
                     \o SubFnLetter(s, fn, j + 1)

\* the end of the greedy \s* that starts at i: the first index not a space
SkipSpaces(s, i) ==
    Min({k \in i..(Len(s) + 1) : k = Len(s) + 1 \/ ~IsSpace(s[k])})

\* \b{fn}\s*\( matches at i
FnParenAt(s, fn, i) ==
    /\ WordBoundary(s, i)
    /\ StartsWithAt(s, fn, i)
    /\ SkipSpaces(s, i + Len(fn)) <= Len(s)
    /\ s[SkipSpaces(s, i + Len(fn))] = "("

\* re.sub(rf'\b{fn}\s*\(', rf'\\{fn}(', text); the part from i on
RECURSIVE SubFnParen(_, _, _)
SubFnParen(s, fn, i) ==
    LET hits == {k \in i..Len(s) : FnParenAt(s, fn, k)}
    IN  IF hits = {} THEN SubSeq(s, i, Len(s))
        ELSE SubSeq(s, i, Min(hits) - 1) \o <<"\\">> \o fn \o <<"(">>
                 \o SubFnParen(s, fn, SkipSpaces(s, Min(hits) + Len(fn)) + 1)

\* the for loop over function_patterns, from pattern k on
RECURSIVE NormalizeFrom(_, _)
NormalizeFrom(s, k) ==
    IF k > Len(function_patterns) THEN s
    ELSE LET fn == function_patterns[k]
         IN  NormalizeFrom(SubFnParen(SubFnLetter(s, fn, 1), fn, 1), k + 1)

normalize_identifiers(s) == NormalizeFrom(s, 1)

(***************************************************************************)
(* beautify_latex                                                          *)
(***************************************************************************)
\* the last index of the run of letters and whitespace that starts at i
RunEnd(s, i) ==
    Min({k \in i..(Len(s) + 1) :
            k = Len(s) + 1 \/ ~(IsAlpha(s[k]) \/ IsSpace(s[k]))}) - 1

\* The end of the match of \\(?:\s*[a-zA-Z]+\s*){2,} at the backslash s[i],
\* 0 when there is none.  Every group holds a letter and only letters and
\* whitespace; a greedy group takes a whole block of letters with the
\* whitespace around it, and backtracking splits one block of two or more
\* letters into two groups.  So the pattern matches exactly when the run
\* of letters and whitespace after the backslash holds two letters or
\* more, and the match is the whole run.
broken_command_end(s, i) ==
    LET e == RunEnd(s, i + 1)
        n == Cardinality({k \in (i + 1)..e : IsAlpha(s[k])})
    IN  IF n >= 2 THEN e ELSE 0

\* fix_broken_commands: '\\' + ''.join(match.split())[1:]
fix_broken_commands(match) ==
    <<"\\">> \o Tail(SelectSeq(match, LAMBDA c : ~IsSpace(c)))

\* step 1: re.sub(r'\\(?:\s*[a-zA-Z]+\s*){2,}', fix_broken_commands, expr);
\* the part of the result from i on
RECURSIVE SubBroken(_, _)
SubBroken(s, i) ==
    LET hits == {k \in i..Len(s) : s[k] = "\\" /\ broken_command_end(s, k) > 0}
    IN  IF hits = {} THEN SubSeq(s, i, Len(s))
        ELSE LET last == broken_command_end(s, Min(hits))
             IN  SubSeq(s, i, Min(hits) - 1)
                     \o fix_broken_commands(SubSeq(s, Min(hits), last))
                     \o SubBroken(s, last + 1)

join_broken_commands(s) == SubBroken(s, 1)

cmd_sim == <<"\\","s","i","m">>
cmd_neg == <<"\\","n","e","g">>

\* (\\sim|\\neg)([a-zA-Z]) matches at i
SimNegAt(s, i) ==
    /\ StartsWithAt(s, cmd_sim, i) \/ StartsWithAt(s, cmd_neg, i)
    /\ i + 4 <= Len(s)
    /\ IsAlpha(s[i + 4])

\* step 2: re.sub(r'(\\sim|\\neg)([a-zA-Z])', r'\1 \2', expr); from i on
RECURSIVE SubSimNeg(_, _)
SubSimNeg(s, i) ==
    LET hits == {k \in i..Len(s) : SimNegAt(s, k)}
    IN  IF hits = {} THEN SubSeq(s, i, Len(s))
        ELSE SubSeq(s, i, Min(hits) + 3) \o <<" ", s[Min(hits) + 4]>>
                 \o SubSimNeg(s, Min(hits) + 5)

space_after_sim_neg(s) == SubSimNeg(s, 1)

cmd_rightarrow == <<"\\","r","i","g","h","t","a","r","r","o","w">>

\* the alternatives of step 3, in the order of the pattern
arrow_commands ==
    << <<"\\","R","i","g","h","t","a","r","r","o","w">>,
       cmd_rightarrow,
       <<"\\","L","e","f","t","a","r","r","o","w">>,
       <<"\\","l","e","f","t","r","i","g","h","t","a","r","r","o","w">> >>

\* the first alternative that matches at i, 0 when none does
ArrowAt(s, i) ==
    LET alts == {k \in 1..Len(arrow_commands) : StartsWithAt(s, arrow_commands[k], i)}
    IN  IF alts = {} THEN 0 ELSE Min(alts)

\* step 3: re.sub(r'(\\Rightarrow|\\rightarrow|\\Leftarrow|\\leftrightarrow)', r' \1 ', expr)
\* the part of the result from i on
RECURSIVE SubArrows(_, _)
SubArrows(s, i) ==
    LET hits == {k \in i..Len(s) : ArrowAt(s, k) > 0}
    IN  IF hits = {} THEN SubSeq(s, i, Len(s))
        ELSE LET arrow == arrow_commands[ArrowAt(s, Min(hits))]
             IN  SubSeq(s, i, Min(hits) - 1) \o <<" ">> \o arrow \o <<" ">>
                     \o SubArrows(s, Min(hits) + Len(arrow))

space_around_arrows(s) == SubArrows(s, 1)

\* step 4: re.sub(r'\s{2,}', ' ', expr); the part of the result from i on
RECURSIVE SubSpaces(_, _)
SubSpaces(s, i) ==
    LET hits == {k \in i..Len(s) : IsSpace(s[k]) /\ SkipSpaces(s, k) >= k + 2}
    IN  IF hits = {} THEN SubSeq(s, i, Len(s))
        ELSE SubSeq(s, i, Min(hits) - 1) \o <<" ">>
                 \o SubSpaces(s, SkipSpaces(s, Min(hits)))

\* step 4 left out
collapse_spaces_skipped(s) == s

collapse_spaces(s) == SubSpaces(s, 1)

beautify_latex(s) ==
    strip(collapse_spaces(space_around_arrows(space_after_sim_neg(
        join_broken_commands(s)))))

(***************************************************************************)
(* The element tree: what the code reads of xml.etree.ElementTree.         *)
(***************************************************************************)
\* get_tag: elem.tag.split('}')[-1]; the tags of the model hold no '}'
get_tag(elem) == elem.tag

\* elem.get(key, default)
ElemGet(elem, key, default) ==
    IF \E p \in elem.attrib : p[1] = key
    THEN (CHOOSE p \in elem.attrib : p[1] = key)[2]
    ELSE default

\* elem.findall(tag): the direct children with that tag
findall(elem, tag) == SelectSeq(elem.kids, LAMBDA c : c.tag = tag)

\* every descendant of elem, in document order
RECURSIVE Descendants(_)
Descendants(elem) ==
    LET RECURSIVE Walk(_)
        Walk(k) ==
            IF k > Len(elem.kids) THEN <<>>
            ELSE <<elem.kids[k]>> \o Descendants(elem.kids[k]) \o Walk(k + 1)
    IN  Walk(1)

\* elem.findall('.//' + tag): the descendants with that tag
findall_deep(elem, tag) == SelectSeq(Descendants(elem), LAMBDA c : c.tag = tag)

\* bool(elem): an Element with no children tests false
Truthy(elem) == Len(elem.kids) > 0

\* (elem.text or '').strip()
stripped_text(elem) == strip(elem.text)

(***************************************************************************)
(* op_map, mo_map                                                          *)
(***************************************************************************)
op_map ==
    "plus" :> <<"+">> @@ "minus" :> <<"-">> @@ "times" :> <<"\\","t","i","m","e","s">> @@
    "divide" :> <<"\\","d","i","v">> @@ "power" :> <<"^">> @@ "root" :> <<"s","q","r","t">> @@
    "eq" :> <<"=">> @@ "neq" :> <<"\\","n","e","q">> @@ "gt" :> <<">">> @@ "lt" :> <<"<">> @@
    "geq" :> <<"\\","g","e">> @@ "leq" :> <<"\\","l","e">>

\* op_map.get(tag, '')
op_map_get(tag) == IF tag \in DOMAIN op_map THEN op_map[tag] ELSE <<>>

\* every key of mo_map is one character, so the map is keyed by it
mo_map ==
    "+" :> <<"+">> @@ "-" :> <<"-">> @@ "*" :> <<"\\","c","d","o","t">> @@ "/" :> <<"/">> @@
    "^" :> <<"^">> @@ "_" :> <<"_">> @@ "(" :> <<"(">> @@ ")" :> <<")">> @@
    "[" :> <<"[">> @@ "]" :> <<"]">> @@ "{" :> <<>> @@ "}" :> <<>> @@
    "U+00D7" :> <<"\\","t","i","m","e","s">> @@ "U+00F7" :> <<"\\","d","i","v">> @@ "U+2260" :> <<"\\","n","e","q">> @@
    "U+2264" :> <<"\\","l","e">> @@ "U+2265" :> <<"\\","g","e">> @@ "U+00B1" :> <<"\\","p","m">> @@
    "U+00B7" :> <<"\\","c","d","o","t">> @@ "U+221E" :> <<"\\","i","n","f","t","y">> @@ "U+2211" :> <<"\\","s","u","m">> @@
    "U+220F" :> <<"\\","p","r","o","d">> @@ "U+2212" :> <<"-">> @@ "~" :> <<"\\","s","i","m">> @@
    "U+02C6" :> <<"\\","h","a","t">>

\* mo_map.get(text, text)
mo_map_get(s) ==
    IF Len(s) = 1 /\ s[1] \in DOMAIN mo_map THEN mo_map[s[1]] ELSE s

(***************************************************************************)
(* Results of a call: a string, or the exception that ends it.             *)
(***************************************************************************)
Ok(s) == [exc |-> "", val |-> s]
Raise(e) == [exc |-> e, val |-> <<>>]
Failed(r) == r.exc # ""

\* a list comprehension of calls raises what its first failing call raises
AnyFailed(rs) == \E k \in 1..Len(rs) : Failed(rs[k])
FirstFailed(rs) ==
    rs[CHOOSE k \in 1..Len(rs) :
          Failed(rs[k]) /\ \A j \in 1..(k - 1) : ~Failed(rs[j])]
Vals(rs) == [k \in 1..Len(rs) |-> rs[k].val]

\* "{" + s + "}"
Braced(s) == <<"{">> \o s \o <<"}">>

RECURSIVE mathml_to_latex_element(_)

(***************************************************************************)
(* mathml_to_latex_element, branch by branch.  children is the list of     *)
(* the child fragments and text the trimmed, digit-normalized text.        *)
(***************************************************************************)
\* the early return left out
is_empty_node_never(text, children) == FALSE

\* not text and not children
is_empty_node(text, children) == text = <<>> /\ children = <<>>

\* the brace-group test of an mrow
is_brace_group(elem) ==
    /\ Len(elem.kids) >= 3
    /\ get_tag(elem.kids[1]) = "mo"
    /\ stripped_text(elem.kids[1]) = <<"{">>
    /\ get_tag(elem.kids[Len(elem.kids)]) = "mo"
    /\ stripped_text(elem.kids[Len(elem.kids)]) = <<"}">>

\* rf"\left\{{{inner}\right\}}" with inner = ''.join(children[1:-1])
brace_group(children) ==
    Ok(<<"\\","l","e","f","t","\\","{">> \o concat(SubSeq(children, 2, Len(children) - 1)) \o <<"\\","r","i","g","h","t","\\","}">>)

\* the determinant test of an mrow
is_determinant(elem) ==
    /\ Len(elem.kids) >= 4
    /\ get_tag(elem.kids[1]) = "mo"
    /\ stripped_text(elem.kids[1]) = <<"|">>
    /\ get_tag(elem.kids[Len(elem.kids)]) = "mo"
    /\ stripped_text(elem.kids[Len(elem.kids)]) = <<"|">>
    /\ \A k \in 2..(Len(elem.kids) - 1) : get_tag(elem.kids[k]) = "mtable"

\* len(mt.find('mtr') or mt.findall('mtr')), the term of num_rows
num_rows_term(mt) ==
    LET mtrs == findall(mt, "mtr")
    IN  IF mtrs # <<>> /\ Truthy(mtrs[1]) THEN Len(mtrs[1].kids) ELSE Len(mtrs)

\* num_rows: computed and never read
num_rows(mtables) ==
    CHOOSE n \in {num_rows_term(mtables[k]) : k \in 1..Len(mtables)} :
        \A k \in 1..Len(mtables) : num_rows_term(mtables[k]) <= n

\* col: one call per mtr of a column table, on its mrow child or on the row
column_cells(mt) ==
    LET mtrs == findall(mt, "mtr")
    IN  [k \in 1..Len(mtrs) |->
            LET mrows == findall(mtrs[k], "mrow")
            IN  mathml_to_latex_element(IF mrows # <<>> THEN mrows[1] ELSE mtrs[k])]

\* the rstrip left out: the separator of the last row stays
keep_trailing_separator(matrix) == matrix

\* matrix.rstrip(r'\\')
strip_trailing_separator(matrix) == rstrip(matrix, {"\\"})

\* the loop over range(len(cols[0])), rows i..n
RECURSIVE MatrixRows(_, _, _)
MatrixRows(cols, i, n) ==
    IF i > n THEN <<>>
    ELSE join(<<" ","&"," ">>, [k \in 1..Len(cols) |-> cols[k][i]]) \o <<" ","\\","\\">>
             \o MatrixRows(cols, i + 1, n)

determinant(elem) ==
    LET mtables == SubSeq(elem.kids, 2, Len(elem.kids) - 1)
        called == [k \in 1..Len(mtables) |-> column_cells(mtables[k])]
        bad == {k \in 1..Len(mtables) : AnyFailed(called[k])}
        cols == [k \in 1..Len(mtables) |-> Vals(called[k])]
        n == Len(cols[1])
    IN  IF bad # {}
        THEN FirstFailed(called[CHOOSE k \in bad : \A j \in bad : k <= j])
        ELSE IF \E k \in 1..Len(cols) : Len(cols[k]) < n
             THEN Raise("IndexError")      \* col[i] of a shorter column
             ELSE Ok(<<"\\","l","e","f","t","|","\\","b","e","g","i","n","{","m","a","t","r","i","x","}">>
                         \o strip_trailing_separator(MatrixRows(cols, 1, n))
                         \o <<"\\","e","n","d","{","m","a","t","r","i","x","}","\\","r","i","g","h","t","|">>)

\* the while loop of the generic mrow, from child i on
RECURSIVE MergePowers(_, _)
MergePowers(children, i) ==
    IF i > Len(children) THEN <<>>
    ELSE IF i + 2 <= Len(children) /\ children[i + 1] = <<"^">>
         THEN children[i] \o <<"^">> \o Braced(children[i + 2])
                  \o MergePowers(children, i + 3)
         ELSE children[i] \o MergePowers(children, i + 1)

mrow_default(children) ==
    IF Len(children) = 1 THEN Ok(children[1])
    ELSE IF Len(children) = 2 /\ children[1] = <<"-">>
         THEN Ok(<<"-">> \o children[2])
         ELSE IF Len(children) >= 3 THEN Ok(MergePowers(children, 1))
              ELSE Ok(concat(children))

mrow(elem, children) ==
    IF is_brace_group(elem) THEN brace_group(children)
    ELSE IF is_determinant(elem) THEN determinant(elem)
         ELSE mrow_default(children)

\* the set of function names of the mi branch
function_names == Range(function_patterns)

mi(text) ==
    IF text = <<"~">> THEN Ok(cmd_sim)
    ELSE IF lower(text) \in function_names THEN Ok(<<"\\">> \o lower(text))
         ELSE IF Len(text) > 1 THEN Ok(<<"\\","m","a","t","h","r","m">> \o Braced(text))
              ELSE Ok(text)

mo(text) ==
    LET op == mo_map_get(text)
    IN  IF startswith(op, <<"\\">>) THEN Ok(op \o <<"{","}">>) ELSE Ok(op)

msup(children) ==
    IF Len(children) < 2 THEN Raise("IndexError")
    ELSE Ok(children[1] \o <<"^">> \o Braced(children[2]))

msub(children) ==
    IF Len(children) < 2 THEN Raise("IndexError")
    ELSE Ok(children[1] \o <<"_">> \o Braced(children[2]))

msubsup(children) ==
    IF Len(children) < 3 THEN Raise("IndexError")
    ELSE Ok(children[1] \o <<"_">> \o Braced(children[2])
                \o <<"^">> \o Braced(children[3]))

mmultiscripts(children) ==
    IF Len(children) < 1 THEN Raise("IndexError")
    ELSE Ok(children[1]
            \o (IF Len(children) > 1 THEN <<"_">> \o Braced(children[2]) ELSE <<>>)
            \o (IF Len(children) > 2 THEN <<"^">> \o Braced(children[3]) ELSE <<>>))

apply(elem) ==
    IF Len(elem.kids) = 0 THEN Raise("ValueError")   \* op_elem, *args = []
    ELSE LET op_tag == get_tag(elem.kids[1])
             op == op_map_get(op_tag)
             called == [k \in 1..(Len(elem.kids) - 1) |->
                           mathml_to_latex_element(elem.kids[k + 1])]
             args_l == Vals(called)
         IN  IF AnyFailed(called) THEN FirstFailed(called)
             ELSE IF op = <<"^">>
                  THEN IF Len(args_l) < 2 THEN Raise("IndexError")
                       ELSE Ok(args_l[1] \o <<"^">> \o Braced(args_l[2]))
                  ELSE IF op = <<"s","q","r","t">>
                       THEN IF op_tag = "root"
                            THEN IF Len(args_l) < 2 THEN Raise("IndexError")
                                 ELSE Ok(<<"\\","s","q","r","t","[">> \o args_l[2] \o <<"]">>
                                             \o Braced(args_l[1]))
                            ELSE IF Len(args_l) < 1 THEN Raise("IndexError")
                                 ELSE Ok(<<"\\","s","q","r","t">> \o Braced(args_l[1]))
                       ELSE Ok(join(<<" ">> \o op \o <<" ">>, args_l))

mfrac(children) ==
    IF Len(children) < 2 THEN Raise("IndexError")
    ELSE Ok(<<"\\","f","r","a","c">> \o Braced(children[1]) \o Braced(children[2]))

msqrt(children) ==
    IF Len(children) < 1 THEN Raise("IndexError")
    ELSE Ok(<<"\\","s","q","r","t">> \o Braced(children[1]))

mroot(children) ==
    IF Len(children) < 2 THEN Raise("IndexError")
    ELSE Ok(<<"\\","s","q","r","t","[">> \o children[2] \o <<"]">> \o Braced(children[1]))

\* the hat-like markers of the mover branch
hat_markers == {<<"\\","h","a","t">>, <<"^">>, <<"U+02C6">>}

mover(children) ==
    IF Len(children) < 2 THEN Raise("IndexError")
    ELSE IF strip(children[2]) \in hat_markers
         THEN Ok(<<"\\","h","a","t">> \o Braced(children[1]))
         ELSE IF children[1] = cmd_rightarrow
              THEN Ok(<<"\\","o","v","e","r","s","e","t">> \o Braced(children[2]) \o Braced(cmd_rightarrow))
              ELSE Ok(<<"\\","o","v","e","r","s","e","t">> \o Braced(children[2]) \o Braced(children[1]))

munder(children) ==
    IF Len(children) < 2 THEN Raise("IndexError")
    ELSE Ok(<<"\\","u","n","d","e","r","s","e","t">> \o Braced(children[2]) \o Braced(children[1]))

munderover(children) ==
    IF Len(children) < 3 THEN Raise("IndexError")
    ELSE LET base == children[1]
             under == children[2]
             over == children[3]
         IN  IF under = <<>> /\ over = <<>> THEN Ok(base)
             ELSE IF under # <<>> /\ over = <<>>
                  THEN Ok(<<"\\","u","n","d","e","r","s","e","t">> \o Braced(under) \o Braced(base))
                  ELSE IF over # <<>> /\ under = <<>>
                       THEN Ok(<<"\\","o","v","e","r","s","e","t">> \o Braced(over) \o Braced(base))
                       ELSE Ok(<<"\\","u","n","d","e","r","s","e","t">> \o Braced(under)
                                   \o Braced(<<"\\","o","v","e","r","s","e","t">> \o Braced(over) \o Braced(base)))

(***************************************************************************)
(* mfenced.  A Python value that is a dict key is a str or a tuple; the    *)
(* two never compare equal.                                                *)
(***************************************************************************)
PyStr(s) == [type |-> "str", v |-> s]
PyTuple(a, b) == [type |-> "tuple", v |-> <<a, b>>]
PyEq(x, y) == x.type = y.type /\ x.v = y.v

\* env_dict: its (key, value) items
env_dict ==
    << <<PyStr(<<"(">>), <<"p","m","a","t","r","i","x">>>>,
       <<PyStr(<<"[">>), <<"b","m","a","t","r","i","x">>>>,
       <<PyStr(<<"|">>), <<"v","m","a","t","r","i","x">>>>,
       <<PyStr(<<"|","|">>), <<"V","m","a","t","r","i","x">>>>,
       <<PyStr(<<"<">>), <<"b","m","a","t","r","i","x">>>>,
       <<PyStr(<<"{">>), <<"b","m","a","t","r","i","x">>>> >>

\* env_dict.get(key, default)
env_dict_get(key, default) ==
    IF \E k \in 1..Len(env_dict) : PyEq(env_dict[k][1], key)
    THEN env_dict[CHOOSE k \in 1..Len(env_dict) : PyEq(env_dict[k][1], key)][2]
    ELSE default

\* env = env_dict.get((openf, closef), 'matrix')
fenced_env(openf, closef) == env_dict_get(PyTuple(openf, closef), <<"m","a","t","r","i","x">>)

\* rf"\begin{{{env}}}{body}\end{{{env}}}"
Environment(env, body) ==
    <<"\\","b","e","g","i","n">> \o Braced(env) \o body \o <<"\\","e","n","d">> \o Braced(env)

\* one row of the fenced table: the calls on its cells
fenced_row_cells(row) ==
    LET mtds == findall_deep(row, "mtd")
        cells == IF mtds # <<>> THEN mtds ELSE row.kids
    IN  [k \in 1..Len(cells) |-> mathml_to_latex_element(cells[k])]

fenced_table(elem, openf, closef) ==
    LET rows == findall_deep(elem, "mtr")
        called == [k \in 1..Len(rows) |-> fenced_row_cells(rows[k])]
        bad == {k \in 1..Len(rows) : AnyFailed(called[k])}
        row_texts == [k \in 1..Len(rows) |-> join(<<" ","&"," ">>, Vals(called[k]))]
        matrix_body == join(<<" ","\\","\\"," ">>, row_texts)
    IN  IF bad # {}
        THEN FirstFailed(called[CHOOSE k \in bad : \A j \in bad : k <= j])
        ELSE Ok(Environment(fenced_env(openf, closef), matrix_body))

\* inner.replace(sep, ' & ') under `if sep:`
replace_separator(inner, sep) ==
    IF sep # <<>> THEN replace(inner, sep, <<" ","&"," ">>) ELSE inner

table_marker == <<"<","m","t","a","b","l","e">>

mfenced(elem, children) ==
    LET openf == ElemGet(elem, "open", <<"(">>)
        closef == ElemGet(elem, "close", <<")">>)
        sep == ElemGet(elem, "sep", <<",", " ">>)
        inner == concat(children)
    IN  IF startswith(inner, table_marker) THEN fenced_table(elem, openf, closef)
        ELSE IF openf \o closef = <<"|","|">>
             THEN Ok(Environment(<<"b","m","a","t","r","i","x">>, inner))
             ELSE IF openf = <<"(">> /\ closef = <<")">>
                  THEN Ok(Environment(<<"p","m","a","t","r","i","x">>, replace_separator(inner, sep)))
                  ELSE IF openf = <<"[">> /\ closef = <<"]">>
                       THEN Ok(Environment(<<"b","m","a","t","r","i","x">>, replace_separator(inner, sep)))
                       ELSE IF openf = <<"|">> /\ closef = <<"|">>
                            THEN Ok(Environment(<<"V","m","a","t","r","i","x">>, replace_separator(inner, sep)))
                            ELSE Ok(openf \o inner \o closef)

(***************************************************************************)
(* mtable, mtext                                                           *)
(***************************************************************************)
\* the test for '=' left out
is_system_arrow_only(row_texts) ==
    \E k \in 1..Len(row_texts) : contains(row_texts[k], <<"U+21D2">>)

\* any(('U+21D2' in row or '=' in row) for row in row_texts)
is_system(row_texts) ==
    \E k \in 1..Len(row_texts) :
        contains(row_texts[k], <<"U+21D2">>) \/ contains(row_texts[k], <<"=">>)

\* row_texts: one call per mtr, on `mrow or row`
table_rows(elem) ==
    LET rows == findall(elem, "mtr")
    IN  [k \in 1..Len(rows) |->
            LET mrows == findall_deep(rows[k], "mrow")
            IN  mathml_to_latex_element(
                    IF mrows # <<>> /\ Truthy(mrows[1]) THEN mrows[1] ELSE rows[k])]

mtable(elem) ==
    LET called == table_rows(elem)
        row_texts == Vals(called)
    IN  IF AnyFailed(called) THEN FirstFailed(called)
        ELSE IF is_system(row_texts)
             THEN Ok(Environment(<<"c","a","s","e","s">>, join(<<" ","\\","\\">>, row_texts)))
             ELSE IF Len(row_texts) > 1
                  THEN Ok(Environment(<<"m","a","t","r","i","x">>, join(<<" ","\\","\\">>, row_texts)))
                  ELSE IF Len(row_texts) = 0 THEN Raise("IndexError")
                       ELSE Ok(row_texts[1])

\* the character class of re.fullmatch(r'[0-9a-zA-Z+\-/*=^_()\[\]{}]+', content)
PlainChars ==
    AlphaChars \cup Range(AsciiDigits)
        \cup {"+", "-", "/", "*", "=", "^", "_", "(", ")", "[", "]", "{", "}"}
IsPlainChar(c) == c \in PlainChars

mtext(text, children) ==
    LET content == convert_persian_digits(
                       IF text # <<>> THEN text ELSE concat(children))
    IN  IF content # <<>> /\ \A k \in 1..Len(content) : IsPlainChar(content[k])
        THEN Ok(content)
        ELSE Ok(<<"\\","t","e","x","t">> \o Braced(content))

(***************************************************************************)
(* mathml_to_latex_element                                                 *)
(***************************************************************************)
mathml_to_latex_element(elem) ==
    LET tag == get_tag(elem)
        called == [k \in 1..Len(elem.kids) |-> mathml_to_latex_element(elem.kids[k])]
        children == Vals(called)
        text == convert_persian_digits(stripped_text(elem))
    IN  IF AnyFailed(called) THEN FirstFailed(called)
        ELSE IF is_empty_node(text, children) THEN Ok(<<>>)
        ELSE CASE tag \in {"math", "mstyle"} -> Ok(concat(children))
               [] tag = "mrow" -> mrow(elem, children)
               [] tag = "mi" -> mi(text)
               [] tag = "mn" -> Ok(text)
               [] tag = "mo" -> mo(text)
               [] tag = "msup" -> msup(children)
               [] tag = "msub" -> msub(children)
               [] tag = "msubsup" -> msubsup(children)
               [] tag = "mmultiscripts" -> mmultiscripts(children)
               [] tag = "apply" -> apply(elem)
               [] tag = "mfrac" -> mfrac(children)
               [] tag = "msqrt" -> msqrt(children)
               [] tag = "mroot" -> mroot(children)
               [] tag = "mover" -> mover(children)
               [] tag = "munder" -> munder(children)
               [] tag = "munderover" -> munderover(children)
               [] tag = "mfenced" -> mfenced(elem, children)
               [] tag = "mtable" -> mtable(elem)
               [] tag = "mtext" -> mtext(text, children)
               [] OTHER -> Ok(text \o concat(children))

(***************************************************************************)
(* The documents the model runs on.  Each math element is a <math> root    *)
(* around one element; the families below are the shapes the rules of the  *)
(* transducer tell apart.                                                  *)
(***************************************************************************)
Elem(tag, txt, kids) == [tag |-> tag, text |-> txt, attrib |-> {}, kids |-> kids]
Leaf(tag, txt) == Elem(tag, txt, <<>>)
Fenced(attrib, kids) ==
    [tag |-> "mfenced", text |-> <<>>, attrib |-> attrib, kids |-> kids]
Math(e) == Elem("math", <<>>, <<e>>)

\* sequences over S of length lo..hi
SeqsOf(S, lo, hi) == UNION {[1..n -> S] : n \in lo..hi}

Identifiers == {Leaf("mi", <<"a">>), Leaf("mi", <<"b">>), Leaf("mn", <<"1">>)}

FunctionCalls ==
    {Elem("mrow", <<>>, <<Leaf("mi", fn), Leaf("mi", arg)>>) :
        fn \in function_names \cup {<<"C","o","s">>}, arg \in {<<"x">>, <<"N">>}}

Delimiters ==
    { {},
      {<<"open", <<"(">>>>, <<"close", <<")">>>>},
      {<<"open", <<"[">>>>, <<"close", <<"]">>>>},
      {<<"open", <<"|">>>>, <<"close", <<"|">>>>},
      {<<"open", <<"|","|">>>>, <<"close", <<"|","|">>>>},
      {<<"open", <<"<">>>>, <<"close", <<">">>>>},
      {<<"open", <<"{">>>>, <<"close", <<"}">>>>},
      {<<"open", <<"(">>>>, <<"close", <<"]">>>>},
      {<<"sep", <<";">>>>},
      {<<"sep", <<>>>>} }

FencedLists ==
    {Fenced(d, <<x, y>>) : d \in Delimiters, x \in Identifiers, y \in Identifiers}
        \cup {Fenced(d, <<Leaf("mn", <<"a",","," ","b">>)>>) : d \in Delimiters}
        \cup {Fenced(d, <<Leaf("mn", <<"a",";","b">>), Leaf("mi", <<"c">>)>>) : d \in Delimiters}

CellRow(x, y) ==
    Elem("mtr", <<>>, <<Elem("mtd", <<>>, <<x>>), Elem("mtd", <<>>, <<y>>)>>)

FencedTables ==
    {Fenced(d, <<Leaf("mn", table_marker), CellRow(x, y)>>) :
        d \in Delimiters, x \in Identifiers, y \in {Leaf("mi", <<"b">>)}}
        \cup {Fenced(d, <<Leaf("mn", table_marker), CellRow(x, x),
                          Elem("mtr", <<>>, <<x>>)>>) :
                d \in Delimiters, x \in {Leaf("mi", <<"a">>)}}

\* rows of a table that is one column of a determinant
ColumnRows ==
    {Elem("mtr", <<>>, <<Elem("mtd", <<>>, <<Leaf("mi", <<"a">>)>>)>>),
     Elem("mtr", <<>>, <<Elem("mrow", <<>>,
         <<Leaf("mi", <<"x">>), Leaf("mo", <<"+">>), Leaf("mn", <<"U+06F1">>)>>)>>),
     Leaf("mtr", <<"c">>)}

\* rows of a table that stands alone
TableRows ==
    {Elem("mtr", <<>>, <<Elem("mtd", <<>>, <<Leaf("mi", <<"a">>)>>)>>),
     Elem("mtr", <<>>, <<Elem("mtd", <<>>, <<Elem("mrow", <<>>,
         <<Leaf("mi", <<"x">>), Leaf("mo", <<"=">>), Leaf("mn", <<"1">>)>>)>>)>>),
     Elem("mtr", <<>>, <<Elem("mtd", <<>>, <<Leaf("mo", <<"U+21D2">>)>>),
                         Elem("mtd", <<>>, <<Leaf("mi", <<"y">>)>>)>>),
     Elem("mtr", <<>>, <<Elem("mrow", <<>>, <<>>), Leaf("mn", <<"2">>)>>)}

Tables(rows) == {Elem("mtable", <<>>, r) : r \in SeqsOf(rows, 1, MaxRows)}

Determinants ==
    {Elem("mrow", <<>>, <<Leaf("mo", <<"|">>), c1, c2, Leaf("mo", <<" ","|"," ">>)>>) :
        c1 \in Tables(ColumnRows), c2 \in Tables(ColumnRows)}

OverMarks ==
    {Elem("mover", <<>>, <<base, Leaf("mo", mark)>>) :
        base \in {Leaf("mi", <<"x">>), Leaf("mi", <<"A","B">>)},
        mark \in {<<"^">>, <<"U+02C6">>, <<" ","^"," ">>, <<"~">>, <<"-">>}}
        \cup {Elem("mover", <<>>, <<Leaf("mtext", cmd_rightarrow), Leaf("mi", <<"f">>)>>)}

AllTags ==
    {"math", "mstyle", "mrow", "mi", "mn", "mo", "msup", "msub", "msubsup",
     "mmultiscripts", "apply", "mfrac", "msqrt", "mroot", "mover", "munder",
     "munderover", "mfenced", "mtable", "mtext", "mtd"}

\* elements with nothing in them, and elements over such children
EmptyNodes ==
    {Leaf(t, s) : t \in AllTags, s \in {<<>>, <<" ">>}}
        \cup {Elem(t, <<>>, <<Leaf("mi", <<>>)>>) : t \in {"mrow", "msqrt", "mstyle"}}
        \cup {Elem(t, <<>>, <<Leaf("mi", <<>>), Leaf("mn", <<" ">>)>>) :
                t \in {"mrow", "mfrac", "msup", "munder", "mfenced", "mtd"}}

\* fixed-arity elements with children missing
Malformed ==
    {Elem(t, <<>>, <<Leaf("mi", <<"x">>)>>) :
        t \in {"msup", "msub", "mfrac", "mroot", "mover", "munder", "msubsup"}}
        \cup {Elem(t, <<"x">>, <<>>) : t \in {"msqrt", "mmultiscripts", "apply", "mtable"}}
        \cup {Elem("munderover", <<>>, <<Leaf("mo", <<"U+2211">>), Leaf("mi", <<"i">>)>>),
              Elem("apply", <<>>, <<Leaf("power", <<>>), Leaf("mi", <<"x">>)>>),
              Elem("mrow", <<>>, <<Leaf("mi", <<"y">>), Elem("msup", <<>>, <<Leaf("mn", <<"2">>)>>)>>)}

\* one well-formed element of each remaining rule
Others ==
    {Elem("msup", <<>>, <<Leaf("mi", <<"x">>), Leaf("mn", <<"2">>)>>),
     Elem("msub", <<>>, <<Leaf("mi", <<"x">>), Leaf("mi", <<"i">>)>>),
     Elem("msubsup", <<>>, <<Leaf("mi", <<"x">>), Leaf("mi", <<"i">>), Leaf("mn", <<"2">>)>>),
     Elem("mmultiscripts", <<>>, <<Leaf("mi", <<"x">>), Leaf("mi", <<"i">>)>>),
     Elem("apply", <<>>, <<Leaf("plus", <<>>), Leaf("mi", <<"x">>), Leaf("mn", <<"1">>)>>),
     Elem("apply", <<>>, <<Leaf("power", <<>>), Leaf("mi", <<"x">>), Leaf("mn", <<"2">>)>>),
     Elem("apply", <<>>, <<Leaf("root", <<>>), Leaf("mi", <<"x">>), Leaf("mn", <<"3">>)>>),
     Elem("apply", <<>>, <<Leaf("sin", <<>>), Leaf("mi", <<"x">>), Leaf("mi", <<"y">>)>>),
     Elem("mfrac", <<>>, <<Leaf("mi", <<"x">>), Leaf("mn", <<"2">>)>>),
     Elem("msqrt", <<>>, <<Leaf("mi", <<"x">>)>>),
     Elem("mroot", <<>>, <<Leaf("mi", <<"x">>), Leaf("mn", <<"3">>)>>),
     Elem("munder", <<>>, <<Leaf("mi", <<"l","i","m">>), Leaf("mi", <<"n">>)>>),
     Elem("munderover", <<>>,
          <<Leaf("mo", <<"U+2211">>), Leaf("mi", <<"i">>), Leaf("mi", <<"n">>)>>),
     Elem("munderover", <<>>, <<Leaf("mi", <<"x">>), Leaf("mi", <<>>), Leaf("mi", <<"n">>)>>),
     Elem("mrow", <<>>, <<Leaf("mo", <<"{">>), Leaf("mi", <<"x">>), Leaf("mo", <<"}">>)>>),
     Elem("mrow", <<>>, <<Leaf("mi", <<"x">>), Leaf("mo", <<"^">>), Leaf("mn", <<"2">>), Leaf("mi", <<"y">>)>>),
     Elem("mrow", <<>>, <<Leaf("mo", <<"-">>), Leaf("mi", <<"x">>)>>),
     Elem("mrow", <<>>, <<Leaf("mi", <<"p">>), Leaf("mo", <<"U+00D7">>), Leaf("mi", <<"q">>)>>),
     Elem("mrow", <<>>, <<Leaf("mtext", <<"c","o","s","x">>), Leaf("mo", <<"+">>), Leaf("mtext", <<"l","n"," ","(">>)>>),
     Elem("mrow", <<>>, <<Leaf("mi", <<"p">>), Leaf("mtext", cmd_rightarrow), Leaf("mi", <<"q">>)>>),
     Elem("mstyle", <<>>, <<Leaf("mi", <<"~">>), Leaf("mi", <<"p">>)>>),
     Leaf("mtext", <<"i","f"," ","x">>),
     Leaf("mtext", <<"x","=","1">>),
     Leaf("mi", <<" ","S","i","n"," ">>),
     Leaf("mn", <<"U+0662", "U+06F5">>),
     Leaf("note", <<"n",".","b",".">>)}

Elements ==
    FunctionCalls \cup FencedLists \cup FencedTables \cup Tables(TableRows)
        \cup Determinants \cup OverMarks \cup EmptyNodes \cup Malformed \cup Others

\* the elements of the documents that hold several math elements
SeveralOf ==
    {Elem("mfrac", <<>>, <<Leaf("mi", <<"x">>), Leaf("mn", <<"2">>)>>),
     Elem("msup", <<>>, <<Leaf("mi", <<"x">>)>>),
     Elem("mfrac", <<>>, <<Leaf("mi", <<"x">>)>>),
     Elem("munderover", <<>>, <<Leaf("mo", <<"U+2211">>), Leaf("mi", <<"i">>)>>),
     Leaf("mn", <<"$","$">>)}

Documents ==
    {<<>>} \cup {<<Math(e)>> : e \in Elements}
        \cup {[k \in 1..Len(d) |-> Math(d[k])] : d \in SeqsOf(SeveralOf, 2, MaxMath)}

\* the inputs of the repair pass: up to MaxChunks chunks
Chunks == {<<"\\">>, <<"s","i","m">>, <<"r","i","g","h","t","a","r","r","o","w">>, <<"x">>, <<" ">>, <<"\n">>, <<"+">>}
RepairInputs == {concat(c) : c \in SeqsOf(Chunks, 0, MaxChunks)}

(***************************************************************************)
(* clean_html_and_convert_mathml.  The document is its math elements: the  *)
(* region a block replaces is the element or its az-formula container, and *)
(* the block takes its place either way.                                   *)
(***************************************************************************)
\* f"\n\n$$\n{latex}\n$$\n\n"
block_of(s) == <<"\n","\n","$","$","\n">> \o s \o <<"\n","$","$","\n","\n">>

\* text.count('$$'): non-overlapping occurrences, from i on
RECURSIVE CountFrom(_, _, _)
CountFrom(s, p, i) ==
    LET hits == {k \in i..Len(s) : StartsWithAt(s, p, k)}
    IN  IF hits = {} THEN 0 ELSE 1 + CountFrom(s, p, Min(hits) + Len(p))

\* text.splitlines(), from i on
RECURSIVE SplitLines(_, _)
SplitLines(s, i) ==
    IF i > Len(s) THEN <<>>
    ELSE LET ends == {k \in i..Len(s) : s[k] = "\n"}
         IN  IF ends = {} THEN <<SubSeq(s, i, Len(s))>>
             ELSE <<SubSeq(s, i, Min(ends) - 1)>> \o SplitLines(s, Min(ends) + 1)

\* lines [283, 288]: the text of the document after the loop
extract_text(bs) ==
    LET whole == join(<<" ">>, bs)
        kept == IF CountFrom(whole, <<"$","$">>, 1) % 2 # 0 THEN rstrip(whole, {"$"})
                ELSE whole
        lines == SelectSeq([k \in 1..Len(SplitLines(kept, 1)) |->
                               strip(SplitLines(kept, 1)[k])],
                           LAMBDA ln : ln # <<>>)
    IN  join(<<"\n">>, lines)

Init ==
    /\ maths \in Documents
    /\ pos = 1
    /\ pc = IF maths = <<>> THEN "extract" ELSE "transduce"
    /\ latex = <<>>
    /\ blocks = <<>>
    /\ output = <<>>
    /\ expr = <<>>
    /\ passes = <<>>

\* line 270, returning
Transduce ==
    /\ pc = "transduce"
    /\ ~Failed(mathml_to_latex_element(maths[pos]))
    /\ latex' = mathml_to_latex_element(maths[pos]).val
    /\ pc' = "postprocess"
    /\ UNCHANGED <<maths, pos, blocks, output, expr, passes>>

\* line 270, raising: nothing catches the exception and the call ends
TransduceRaises ==
    /\ pc = "transduce"
    /\ Failed(mathml_to_latex_element(maths[pos]))
    /\ pc' = "raised"
    /\ UNCHANGED <<maths, pos, latex, blocks, output, expr, passes>>

\* line 271
PostProcess ==
    /\ pc = "postprocess"
    /\ latex' = beautify_latex(normalize_identifiers(latex))
    /\ pc' = "replace"
    /\ UNCHANGED <<maths, pos, blocks, output, expr, passes>>

\* lines 272-278, and the step of the for loop
Replace ==
    /\ pc = "replace"
    /\ blocks' = Append(blocks, block_of(latex))
    /\ pos' = pos + 1
    /\ pc' = IF pos < Len(maths) THEN "transduce" ELSE "extract"
    /\ UNCHANGED <<maths, latex, output, expr, passes>>

\* lines 280-288
Extract ==
    /\ pc = "extract"
    /\ output' = extract_text(blocks)
    /\ pc' = "done"
    /\ UNCHANGED <<maths, pos, latex, blocks, expr, passes>>

Next == Transduce \/ TransduceRaises \/ PostProcess \/ Replace \/ Extract

Spec == Init /\ [][Next]_vars

(***************************************************************************)
(* The repair pass run twice on one string.                                *)
(***************************************************************************)
InitRepair ==
    /\ expr \in RepairInputs
    /\ passes = <<>>
    /\ pc = "repair"
    /\ maths = <<>>
    /\ pos = 1
    /\ latex = <<>>
    /\ blocks = <<>>
    /\ output = <<>>

Repair ==
    /\ pc = "repair"
    /\ Len(passes) < 2
    /\ passes' = Append(passes,
                    beautify_latex(IF passes = <<>> THEN expr
                                   ELSE passes[Len(passes)]))
    /\ UNCHANGED <<maths, pos, pc, latex, blocks, output, expr>>

NextRepair == Repair

SpecRepair == InitRepair /\ [][NextRepair]_vars

(***************************************************************************)
(* The claims.  After line 270 has returned (pc = "postprocess") latex is  *)
(* the fragment of maths[pos]; a <math> root passes the fragment of its    *)
(* one child through, so it is the fragment of Focus.  Called holds once   *)
(* the call of line 270 has ended, by a return or by an exception.         *)
(***************************************************************************)
Returned == pc = "postprocess"
Called == pc \in {"postprocess", "raised"}
Focus == maths[pos].kids[1]
Frag(e) == mathml_to_latex_element(e).val
Nodes(e) == <<e>> \o Descendants(e)

\* C1: an mfenced with '(' and ')', the default separator and two children
IsFencedPair(e) ==
    /\ get_tag(e) = "mfenced"
    /\ Len(e.kids) = 2
    /\ ElemGet(e, "open", <<"(">>) = <<"(">>
    /\ ElemGet(e, "close", <<")">>) = <<")">>
    /\ ~\E p \in e.attrib : p[1] = "sep"
    /\ ~contains(Frag(e.kids[1]), <<","," ">>)
    /\ ~contains(Frag(e.kids[2]), <<","," ">>)

\* C1: an mfenced with open '(' and close ')', the default separator and
\* two children with fragments a and b yields \begin{pmatrix}a & b\end{pmatrix}.
C1_FencedPairSeparated ==
    (Returned /\ IsFencedPair(Focus)) =>
        latex = <<"\\","b","e","g","i","n","{","p","m","a","t","r","i","x","}">> \o Frag(Focus.kids[1]) \o <<" ","&"," ">>
                    \o Frag(Focus.kids[2]) \o <<"\\","e","n","d","{","p","m","a","t","r","i","x","}">>

\* C2: an mrow of an mi with a function name and an mi with one letter
IsFunctionCall(e) ==
    /\ get_tag(e) = "mrow"
    /\ Len(e.kids) = 2
    /\ get_tag(e.kids[1]) = "mi" /\ get_tag(e.kids[2]) = "mi"
    /\ lower(stripped_text(e.kids[1])) \in function_names
    /\ Len(stripped_text(e.kids[2])) = 1
    /\ IsAlpha(stripped_text(e.kids[2])[1])

\* C2: after both post-process passes the function command of such an mrow
\* is there with one backslash before it, never two.
C2_SingleEscape ==
    (pc = "replace" /\ IsFunctionCall(Focus)) =>
        LET cmd == <<"\\">> \o lower(stripped_text(Focus.kids[1]))
        IN  contains(latex, cmd) /\ ~contains(latex, <<"\\">> \o cmd)

\* C3: beautify_latex is idempotent: the second pass returns what the
\* first pass returned.
C3_RepairIdempotent == Len(passes) = 2 => passes[2] = passes[1]

C3_Witness ==
    /\ Len(passes) = 2
    /\ passes[1] # expr
    /\ contains(expr, cmd_rightarrow)
    /\ contains(expr, <<" ">>)

\* C4: bar, two column tables of the same number N >= 1 of rows, bar
IsDeterminant2(e) ==
    /\ is_determinant(e)
    /\ Len(e.kids) = 4
    /\ Len(findall(e.kids[2], "mtr")) >= 1
    /\ Len(findall(e.kids[2], "mtr")) = Len(findall(e.kids[3], "mtr"))
    /\ \A k \in 2..3 : Len(findall(e.kids[k], "mtr")) = Len(e.kids[k].kids)

\* the fragment of a row of a column table
RowFragment(row) ==
    Frag(IF findall(row, "mrow") # <<>> THEN findall(row, "mrow")[1] ELSE row)

\* row i of the determinant: the two row fragments around ' & '
DeterminantRow(e, i) ==
    RowFragment(findall(e.kids[2], "mtr")[i]) \o <<" ","&"," ">>
        \o RowFragment(findall(e.kids[3], "mtr")[i])

IsTable(e) == get_tag(e) = "mtable" /\ Len(findall(e, "mtr")) >= 1
HasEquals(row) == contains(row, <<"=">>)
HasArrow(row) == contains(row, <<"U+21D2">>)

IsFencedTable(e) ==
    /\ get_tag(e) = "mfenced"
    /\ startswith(concat([k \in 1..Len(e.kids) |-> Frag(e.kids[k])]), table_marker)

\* the environment the claim names for a delimiter pair
ClaimedEnv(openf, closef) ==
    CASE openf = <<"(">> /\ closef = <<")">> -> <<"p","m","a","t","r","i","x">>
      [] openf = <<"[">> /\ closef = <<"]">> -> <<"b","m","a","t","r","i","x">>
      [] openf = <<"|">> /\ closef = <<"|">> -> <<"v","m","a","t","r","i","x">>
      [] openf = <<"|","|">> /\ closef = <<"|","|">> -> <<"V","m","a","t","r","i","x">>
      [] openf = <<"<">> /\ closef = <<">">> -> <<"b","m","a","t","r","i","x">>
      [] openf = <<"{">> /\ closef = <<"}">> -> <<"b","m","a","t","r","i","x">>
      [] OTHER -> <<"m","a","t","r","i","x">>

\* C6: in the fenced-table branch the environment is the one the
\* (open, close) pair selects; only another pair gives the generic matrix.
C6_EnvByDelimiters ==
    (Returned /\ IsFencedTable(Focus)) =>
        startswith(latex,
            <<"\\","b","e","g","i","n">> \o Braced(ClaimedEnv(ElemGet(Focus, "open", <<"(">>),
                                           ElemGet(Focus, "close", <<")">>))))

\* C7, as stated: no direct text and every child fragment empty
HasOnlyEmptyFragments(e) ==
    /\ strip(e.text) = <<>>
    /\ \A k \in 1..Len(e.kids) :
           /\ ~Failed(mathml_to_latex_element(e.kids[k]))
           /\ Frag(e.kids[k]) = <<>>

\* C7 as stated: an element with no direct text whose child fragments are
\* all empty, children or not, yields the empty string.
C7_EmptyFragmentsEmpty ==
    (Called /\ HasOnlyEmptyFragments(Focus)) =>
        (Returned /\ latex = <<>>)

\* C7 as amended: an element of any tag with no direct text and no child
\* elements yields the empty string.
C7_EmptyLeafEmpty ==
    (Called /\ strip(Focus.text) = <<>> /\ Focus.kids = <<>>) =>
        (Returned /\ latex = <<>>)

C7_Witness ==
    /\ Returned
    /\ latex = <<>>
    /\ get_tag(Focus) = "mfrac"
    /\ Focus.kids = <<>>
    /\ Focus.text = <<" ">>

\* the children the rule of a tag reads
MinKids(tag) ==
    CASE tag \in {"msqrt", "mmultiscripts", "apply"} -> 1
      [] tag \in {"msup", "msub", "mfrac", "mroot", "mover", "munder"} -> 2
      [] tag \in {"msubsup", "munderover"} -> 3
      [] OTHER -> 0

\* C8: a fixed-arity element of the tree has children missing
HasMissingChildren(tree) ==
    \E k \in 1..Len(Nodes(tree)) :
        LET e == Nodes(tree)[k]
        IN  /\ get_tag(e) \in {"msup", "msub", "mfrac", "mroot", "mover",
                               "munder", "msubsup", "munderover"}
            /\ Len(e.kids) < MinKids(get_tag(e))

\* C8: a math element with children missing is not fatal to
\* clean_html_and_convert_mathml: its conversion does not end in an
\* exception, and the call ends with one block for every math element.
C8_MalformedNotFatal ==
    /\ pc = "raised" => ~HasMissingChildren(maths[pos])
    /\ pc = "done" => Len(blocks) = Len(maths)

\* C9: every element has the children its rule reads
ArityRespecting(tree) ==
    \A k \in 1..Len(Nodes(tree)) :
        LET e == Nodes(tree)[k]
        IN  /\ Len(e.kids) >= MinKids(get_tag(e))
            /\ (get_tag(e) = "apply" /\ get_tag(e.kids[1]) \in {"power", "root"})
                   => Len(e.kids) >= 3
            /\ get_tag(e) = "mtable" => Len(findall(e, "mtr")) >= 1

\* C9: on a tree in which every element has the children its rule reads,
\* mathml_to_latex_element returns a string and raises nothing.
C9_TotalOnArityRespecting ==
    pc = "raised" => ~ArityRespecting(maths[pos])

\* C10: an mover of two children whose second is an mo holding a hat glyph
IsHatted(e) ==
    /\ get_tag(e) = "mover"
    /\ Len(e.kids) = 2
    /\ get_tag(e.kids[2]) = "mo"
    /\ e.kids[2].kids = <<>>
    /\ stripped_text(e.kids[2]) \in {<<"^">>, <<"U+02C6">>}

\* C10: such an mover yields \hat{base}, base the fragment of its first
\* child.
C10_HatOverBase ==
    (Returned /\ IsHatted(Focus)) =>
        latex = <<"\\","h","a","t">> \o Braced(Frag(Focus.kids[1]))

====
